---- MODULE Spec2Model ----
(***************************************************************************)
(* Model of the real-time frame pipeline of obsbot-controls-qt-linux:      *)
(*   - VirtualCameraStreamer (src/gui/VirtualCameraStreamer.cpp): the      *)
(*     v4l2loopback device session, specification Spec;                    *)
(*   - FilterPreviewWidget (src/gui/FilterPreviewWidget.cpp): the GPU      *)
(*     resource cache and the offscreen emission, specification WidgetSpec;*)
(*   - convertRgbToYuyv (src/gui/VirtualCameraStreamer.cpp): the RGB to    *)
(*     YUYV converter, store by store, specification ConverterSpec;        *)
(*   - the aspect fit of FilterPreviewWidget::renderToCurrentTarget,       *)
(*     specification AspectSpec.                                           *)
(* Every public operation is one atomic action (the program is single      *)
(* threaded); the system calls and GPU allocations it makes succeed or     *)
(* fail by a nondeterministic input.                                       *)
(***************************************************************************)
EXTENDS Integers, Sequences, FiniteSets, TLC

\* ------------------------------------------------------------------ bounds
\* Frame and forced-resolution dimensions range over 1..MaxDim (plus the
\* spec's 1920x1080 / 640x480 example).
MaxDim == 2
\* Stand-in for the process's open-file limit: open(2) fails beyond it.
MaxOpenFiles == 2
\* Frames the widget receives in one run (caps the received/emitted counters).
MaxFrames == 3
\* The converter's input images are 0..MaxWidth wide and 0..MaxHeight high.
MaxWidth == 4
MaxHeight == 2
\* The aspect fit's frame and target dimensions range over 1..MaxAspectDim.
MaxAspectDim == 3

\* ------------------------------------------------------------------ state
VARIABLES
    \* VirtualCameraStreamer
    m_fd,               \* int m_fd; -1 is the closed sentinel
    m_devicePath,       \* QString m_devicePath, a sequence of characters
    m_enabled,          \* bool m_enabled
    m_deviceConfigured, \* bool m_deviceConfigured
    m_frameWidth,       \* int m_frameWidth
    m_frameHeight,      \* int m_frameHeight
    m_forcedResolution, \* QSize m_forcedResolution
    osFds,              \* the descriptors the kernel holds open for the process
    last,               \* history: the last streamer call, its pre-state and what it did
    shortWritePending,  \* history: a short write closed the session, no frame reached openDevice since
    streamerLife,       \* "alive", "destroyed" (the destructor ran) or "aborted" (the process died)
    \* FilterPreviewWidget
    m_currentImage,     \* QImage m_currentImage: its size, or NullImage
    m_textureDirty,     \* bool m_textureDirty
    m_emitPending,      \* bool m_emitPending
    m_filterType,       \* FilterType m_filterType, 0..5
    m_filterStrength,   \* float m_filterStrength, in percent
    m_program,          \* unique_ptr<QOpenGLShaderProgram>: TRUE when set
    m_texture,          \* unique_ptr<QOpenGLTexture>: its size, or NoObject
    m_framebuffer,      \* unique_ptr<QOpenGLFramebufferObject>: its size, or NoObject
    m_geometryInitialized, \* bool m_geometryInitialized (vertex buffer and array created)
    contextReady,       \* the rendering context exists and initializeGL has run
    received,           \* history: valid frames accepted by updateVideoFrame
    emitted,            \* history: processedFrameReady emissions
    unpainted,          \* history: the last valid frame has not seen a paintGL yet
    paintsSinceArrival, \* history: paintGL calls since the last frame arrival (capped at 2)
    overlapped,         \* history: some frame arrived before its predecessor was painted
    gpuFailed,          \* history: some link or offscreen allocation failed
    lastPaint,          \* history: what the last widget call did
    widgetDestroyed,    \* the widget's destructor has run
    devicePixelRatio,   \* devicePixelRatioF() of the screen the widget is on
    \* convertRgbToYuyv
    rgbImage,           \* const QImage &image: the RGB888 input
    conversion,         \* what the call did: its result, outBuffer and every store
    \* renderToCurrentTarget's aspect fit
    fitFrameSize,       \* const QSizeF frameSize = frameAspectSize()
    fitTargetSize,      \* const QSize &targetSize
    u_scale             \* the uniform u_scale: the QVector2D scale, or NoScale

streamerVars == <<m_fd, m_devicePath, m_enabled, m_deviceConfigured, m_frameWidth,
                  m_frameHeight, m_forcedResolution, osFds, last, shortWritePending,
                  streamerLife>>
widgetVars == <<m_currentImage, m_textureDirty, m_emitPending, m_filterType,
                m_filterStrength, m_program, m_texture, m_framebuffer,
                m_geometryInitialized, contextReady, received, emitted, unpainted,
                paintsSinceArrival, overlapped, gpuFailed, lastPaint, widgetDestroyed,
                devicePixelRatio>>
converterVars == <<rgbImage, conversion>>
aspectVars == <<fitFrameSize, fitTargetSize, u_scale>>
vars == <<streamerVars, widgetVars, converterVars, aspectVars>>

\* ------------------------------------------------------------------ Qt values
\* QSize: width and height; QSize() is (-1,-1).
QSize(w, h) == [w |-> w, h |-> h]
InvalidSize == QSize(-1, -1)
\* QSize::isValid: both dimensions >= 0 (so 0x0 is valid).
isValid(s) == s.w >= 0 /\ s.h >= 0
\* QSize::isEmpty: a dimension < 1.
isEmpty(s) == s.w < 1 \/ s.h < 1

\* QImage: null, or a size and a pixel format.
NullImage == [null |-> TRUE, w |-> 0, h |-> 0, fmt |-> "Invalid"]
Image(w, h, fmt) == [null |-> FALSE, w |-> w, h |-> h, fmt |-> fmt]
size(img) == QSize(img.w, img.h)

\* A qreal that is a quotient n/d of positive integers, kept exact.
Rational(n, d) == [n |-> n, d |-> d]
\* qRound of the non-negative v * r.
qRoundTimes(v, r) == (2 * v * r.n + r.d) \div (2 * r.d)
\* (QSizeF(s) * r).toSize()
scaledToSize(s, r) == QSize(qRoundTimes(s.w, r), qRoundTimes(s.h, r))

\* QString as a sequence of characters; " " is the whitespace character.
RECURSIVE trimLeft(_)
trimLeft(s) == IF s # <<>> /\ Head(s) = " " THEN trimLeft(Tail(s)) ELSE s
RECURSIVE trimRight(_)
trimRight(s) ==
    IF s # <<>> /\ s[Len(s)] = " " THEN trimRight(SubSeq(s, 1, Len(s) - 1)) ELSE s
\* QString::trimmed
trimmed(s) == trimRight(trimLeft(s))

kDefaultDevicePath == <<"/dev/video42">>

Max(a, b) == IF a >= b THEN a ELSE b

\* QSize::scaled(s, Qt::KeepAspectRatioByExpanding) as QImage::scaled applies it:
\* the size with this aspect ratio that covers s, each dimension at least 1.
scaledExpanding(sz, s) ==
    IF sz.w = 0 \/ sz.h = 0 THEN s
    ELSE LET rw == (s.h * sz.w) \div sz.h
             r == IF rw >= s.w THEN QSize(rw, s.h)
                  ELSE QSize(s.w, (s.w * sz.h) \div sz.w)
         IN QSize(Max(r.w, 1), Max(r.h, 1))

\* ------------------------------------------------------------------ inputs
Formats == {"RGB888", "RGBA8888"}
FrameSizes == {QSize(w, h) : w \in 1..MaxDim, h \in 1..MaxDim} \cup {QSize(1920, 1080)}
FrameInputs == {NullImage} \cup {Image(sz.w, sz.h, f) : sz \in FrameSizes, f \in Formats}
ForcedInputs ==
    {InvalidSize, QSize(-2, 1), QSize(0, 0), QSize(0, 1)}
        \cup {QSize(w, h) : w \in 1..MaxDim, h \in 1..MaxDim} \cup {QSize(640, 480)}
PathInputs ==
    {<<>>, <<" ">>, kDefaultDevicePath, <<" ">> \o kDefaultDevicePath,
     <<"/dev/video9">>, <<"/dev/video9", " ">>}
\* The first library or system call of a frame's handling that fails, if any:
\* every failure ends the handling of the frame, so one name covers a call.
\* "overflow" is the converter's out-of-bounds store ending the process.
Faults == {"none", "convert1", "scale", "copy", "convert2",
           "open", "reopen", "ioctl", "overflow", "shortwrite", "writeerr"}

\* ------------------------------------------------------------------ QImage calls
\* QImage::convertToFormat: the same pixels in format fmt, null on failure.
convertToFormat(img, fmt, ok) ==
    IF img.null \/ ~ok THEN NullImage ELSE Image(img.w, img.h, fmt)
\* QImage::scaled(s, mode, Qt::SmoothTransformation): null for a null image, an
\* empty s or a failed allocation; the image itself when the size is unchanged;
\* otherwise a new image in the format the smooth scaler works in (outFmt).
imageScaled(img, s, expanding, outFmt, ok) ==
    IF img.null \/ isEmpty(s) THEN NullImage
    ELSE LET n == IF expanding THEN scaledExpanding(size(img), s) ELSE s
         IN IF n = size(img) THEN img
            ELSE IF ~ok THEN NullImage
            ELSE Image(n.w, n.h, outFmt)
\* QImage::copy(x, y, w, h): a w x h image of the same format, null on failure.
imageCopy(img, w, h, ok) ==
    IF img.null \/ w <= 0 \/ h <= 0 \/ ~ok THEN NullImage ELSE Image(w, h, img.fmt)

\* ------------------------------------------------------------------ streamer
\* One entry of the log of system calls a streamer call makes.
Op(kind, fd, path, w, h, ok) ==
    [op |-> kind, fd |-> fd, path |-> path, w |-> w, h |-> h, ok |-> ok]

\* The streamer's fields and the kernel's descriptor table as one value s, which
\* the private methods below transform; s.ops, s.errors and s.req log the system
\* calls, the errorOccurred emissions and the dimensions openDevice was asked for.
Snapshot ==
    [fd |-> m_fd, path |-> m_devicePath, enabled |-> m_enabled,
     configured |-> m_deviceConfigured, fw |-> m_frameWidth, fh |-> m_frameHeight,
     forced |-> m_forcedResolution, os |-> osFds,
     ops |-> <<>>, errors |-> <<>>, req |-> InvalidSize, aborted |-> FALSE]

\* ::open(m_devicePath, O_WRONLY) assigned to m_fd: the lowest free descriptor, or -1.
sysOpen(s, ok) ==
    LET succeed == ok /\ Cardinality(s.os) < MaxOpenFiles
        fd == IF succeed
              THEN CHOOSE n \in 3..(3 + Cardinality(s.os)) :
                       n \notin s.os /\ \A m \in 3..(n - 1) : m \in s.os
              ELSE -1
    IN [s EXCEPT !.fd = fd,
                 !.os = IF succeed THEN @ \cup {fd} ELSE @,
                 !.ops = Append(@, Op("open", fd, s.path, 0, 0, succeed))]

\* Mutant of closeDevice: the recorded dimensions are kept.
closeDevice_keepDimensions(s) ==
    LET c == IF s.fd # -1
             THEN [s EXCEPT !.os = @ \ {s.fd},
                            !.ops = Append(@, Op("close", s.fd, s.path, 0, 0, TRUE)),
                            !.fd = -1]
             ELSE s
    IN [c EXCEPT !.configured = FALSE]

\* Mutant of closeDevice: m_fd is reset without ::close.
closeDevice_noClose(s) ==
    [s EXCEPT !.fd = -1, !.configured = FALSE, !.fw = 0, !.fh = 0]

\* VirtualCameraStreamer::closeDevice
closeDevice(s) ==
    LET c == IF s.fd # -1
             THEN [s EXCEPT !.os = @ \ {s.fd},
                            !.ops = Append(@, Op("close", s.fd, s.path, 0, 0, TRUE)),
                            !.fd = -1]
             ELSE s
    IN [c EXCEPT !.configured = FALSE, !.fw = 0, !.fh = 0]

\* VirtualCameraStreamer::configureFormat: one VIDIOC_S_FMT ioctl.
configureFormat(s, width, height, ok) ==
    IF s.fd = -1 THEN [s |-> s, ret |-> FALSE]
    ELSE LET t == [s EXCEPT !.ops = Append(@, Op("ioctl", s.fd, s.path, width, height, ok))]
         IN IF ~ok
            THEN [s |-> [t EXCEPT !.errors = Append(@, "format")], ret |-> FALSE]
            ELSE [s |-> t, ret |-> TRUE]

\* Mutant of openDeviceConfigure: a failed format negotiation leaves the handle open.
openDeviceConfigure_keepOpen(b, width, height, fault) ==
    IF ~b.configured \/ width # b.fw \/ height # b.fh
    THEN LET differ == width # b.fw \/ height # b.fh
             c == IF differ THEN sysOpen(closeDevice(b), fault # "reopen") ELSE b
         IN IF differ /\ c.fd = -1
            THEN [s |-> [c EXCEPT !.errors = Append(@, "open"), !.enabled = FALSE],
                  ret |-> FALSE]
            ELSE LET r == configureFormat(c, width, height, fault # "ioctl")
                 IN IF ~r.ret
                    THEN [s |-> [r.s EXCEPT !.enabled = FALSE], ret |-> FALSE]
                    ELSE [s |-> [r.s EXCEPT !.configured = TRUE,
                                            !.fw = width, !.fh = height],
                          ret |-> TRUE]
    ELSE [s |-> b, ret |-> TRUE]

\* Mutant of openDeviceConfigure: the configured dimensions are not recorded.
openDeviceConfigure_noRecord(b, width, height, fault) ==
    IF ~b.configured \/ width # b.fw \/ height # b.fh
    THEN LET differ == width # b.fw \/ height # b.fh
             c == IF differ THEN sysOpen(closeDevice(b), fault # "reopen") ELSE b
         IN IF differ /\ c.fd = -1
            THEN [s |-> [c EXCEPT !.errors = Append(@, "open"), !.enabled = FALSE],
                  ret |-> FALSE]
            ELSE LET r == configureFormat(c, width, height, fault # "ioctl")
                 IN IF ~r.ret
                    THEN [s |-> [closeDevice(r.s) EXCEPT !.enabled = FALSE], ret |-> FALSE]
                    ELSE [s |-> [r.s EXCEPT !.configured = TRUE], ret |-> TRUE]
    ELSE [s |-> b, ret |-> TRUE]

\* The tail of openDevice once the handle is open: (re)configure when needed.
openDeviceConfigure(b, width, height, fault) ==
    IF ~b.configured \/ width # b.fw \/ height # b.fh
    THEN LET differ == width # b.fw \/ height # b.fh
             c == IF differ THEN sysOpen(closeDevice(b), fault # "reopen") ELSE b
         IN IF differ /\ c.fd = -1
            THEN [s |-> [c EXCEPT !.errors = Append(@, "open"), !.enabled = FALSE],
                  ret |-> FALSE]
            ELSE LET r == configureFormat(c, width, height, fault # "ioctl")
                 IN IF ~r.ret
                    THEN [s |-> [closeDevice(r.s) EXCEPT !.enabled = FALSE], ret |-> FALSE]
                    ELSE [s |-> [r.s EXCEPT !.configured = TRUE,
                                            !.fw = width, !.fh = height],
                          ret |-> TRUE]
    ELSE [s |-> b, ret |-> TRUE]

\* VirtualCameraStreamer::openDevice
openDevice(s0, width, height, fault) ==
    LET s == [s0 EXCEPT !.req = QSize(width, height)]
    IN IF s.fd = -1
       THEN LET a == sysOpen(s, fault # "open")
            IN IF a.fd = -1
               THEN [s |-> [a EXCEPT !.errors = Append(@, "open"), !.enabled = FALSE],
                     ret |-> FALSE]
               ELSE openDeviceConfigure([a EXCEPT !.configured = FALSE],
                                        width, height, fault)
       ELSE openDeviceConfigure(s, width, height, fault)

\* convertRgbToYuyv, as far as the session sees it: it fails exactly for a
\* non-positive width or height, and the buffer has width*height*2 bytes.
convertRgbToYuyvOk(image) == ~(image.w <= 0 \/ image.h <= 0)
yuyvSize(image) == image.w * image.h * 2
\* For an odd width its last stores fall behind outBuffer (lines 86-94), which
\* is undefined behaviour: the call goes on, or the process is aborted.
convertRgbToYuyvOverflows(image) == image.w % 2 = 1

\* VirtualCameraStreamer::writeFrame
writeFrame(s, image, fault) ==
    IF s.fd = -1 THEN [s |-> s, ret |-> FALSE]
    ELSE IF ~convertRgbToYuyvOk(image)
    THEN [s |-> [s EXCEPT !.errors = Append(@, "convert")], ret |-> FALSE]
    ELSE IF convertRgbToYuyvOverflows(image) /\ fault = "overflow"
    THEN [s |-> [s EXCEPT !.aborted = TRUE], ret |-> FALSE]
    ELSE LET frameSize == yuyvSize(image)
             written == CASE fault = "shortwrite" -> frameSize \div 2
                          [] fault = "writeerr" -> -1
                          [] OTHER -> frameSize
             t == [s EXCEPT !.ops = Append(@, Op("write", s.fd, s.path, image.w, image.h,
                                                  written = frameSize))]
         IN IF written # frameSize
            THEN [s |-> [t EXCEPT !.errors = Append(@, "write")], ret |-> FALSE]
            ELSE [s |-> t, ret |-> TRUE]

\* Mutant of deliver: a failed write leaves the session open.
deliver_noClose(s, image, fault) ==
    LET o == openDevice(s, image.w, image.h, fault)
    IN IF ~o.ret THEN o.s ELSE writeFrame(o.s, image, fault).s

\* Lines 224-230 of onProcessedFrameReady: open, write, close on a failed write.
deliver(s, image, fault) ==
    LET o == openDevice(s, image.w, image.h, fault)
    IN IF ~o.ret THEN o.s
       ELSE LET w == writeFrame(o.s, image, fault)
            IN IF ~w.ret /\ ~w.s.aborted THEN closeDevice(w.s) ELSE w.s

\* Mutant of fitToTarget: the aspect-filling scale is not cropped to the target.
fitToTarget_noCrop(image, forced, scaledFmt, fault) ==
    LET targetSize == IF isValid(forced) THEN forced ELSE size(image)
    IN IF targetSize.w <= 0 \/ targetSize.h <= 0 THEN NullImage
       ELSE IF size(image) # targetSize /\ isValid(forced)
       THEN imageScaled(image, targetSize, TRUE, scaledFmt, fault # "scale")
       ELSE image

\* Lines 180-207 of onProcessedFrameReady: the image fitted to the target size
\* (aspect-filling scale, then centred crop), or NullImage when the frame is dropped.
fitToTarget(image, forced, scaledFmt, fault) ==
    LET targetSize == IF isValid(forced) THEN forced ELSE size(image)
    IN IF targetSize.w <= 0 \/ targetSize.h <= 0 THEN NullImage
       ELSE IF size(image) # targetSize
       THEN IF isValid(forced)
            THEN LET scaled == imageScaled(image, targetSize, TRUE, scaledFmt,
                                           fault # "scale")
                 IN IF scaled.null THEN NullImage
                    ELSE LET fitted ==
                                 IF size(scaled) # targetSize
                                 THEN imageCopy(scaled, targetSize.w, targetSize.h,
                                                fault # "copy")
                                 ELSE scaled
                         IN IF size(fitted) # targetSize
                            THEN imageScaled(fitted, targetSize, FALSE, scaledFmt, TRUE)
                            ELSE fitted
            ELSE image
       ELSE image

\* VirtualCameraStreamer::onProcessedFrameReady
onProcessedFrameReady(s, frame, scaledFmt, fault) ==
    IF ~s.enabled THEN s
    ELSE IF frame.null THEN s
    ELSE LET image == IF frame.fmt # "RGB888"
                      THEN convertToFormat(frame, "RGB888", fault # "convert1")
                      ELSE frame
         IN IF image.null THEN s
            ELSE LET fitted == fitToTarget(image, s.forced, scaledFmt, fault)
                 IN IF fitted.null THEN s
                    ELSE LET normal == IF fitted.fmt # "RGB888"
                                       THEN convertToFormat(fitted, "RGB888",
                                                            fault # "convert2")
                                       ELSE fitted
                         IN IF normal.null THEN s ELSE deliver(s, normal, fault)

\* Mutant of setDevicePath: the new path is stored and the old handle kept.
setDevicePath_noClose(s, path) ==
    LET normalized == IF trimmed(path) = <<>> THEN kDefaultDevicePath ELSE trimmed(path)
    IN IF normalized = s.path THEN s
       ELSE [s EXCEPT !.path = normalized, !.configured = FALSE]

\* VirtualCameraStreamer::setDevicePath
setDevicePath(s, path) ==
    LET normalized == IF trimmed(path) = <<>> THEN kDefaultDevicePath ELSE trimmed(path)
    IN IF normalized = s.path THEN s
       ELSE LET t == [s EXCEPT !.path = normalized, !.configured = FALSE]
            IN IF t.fd # -1 THEN closeDevice(t) ELSE t

\* Mutant of setEnabled: disabling keeps the session open.
setEnabled_noClose(s, enabled) ==
    IF s.enabled = enabled THEN s ELSE [s EXCEPT !.enabled = enabled]

\* VirtualCameraStreamer::setEnabled
setEnabled(s, enabled) ==
    IF s.enabled = enabled THEN s
    ELSE LET t == [s EXCEPT !.enabled = enabled]
         IN IF ~t.enabled THEN closeDevice(t) ELSE t

\* VirtualCameraStreamer::setForcedResolution
setForcedResolution(s, resolution) ==
    LET normalized == IF isValid(resolution) THEN resolution ELSE InvalidSize
    IN IF normalized = s.forced THEN s
       ELSE closeDevice([s EXCEPT !.forced = normalized])

\* The fields as they were when the call started.
Pre ==
    [fd |-> m_fd, path |-> m_devicePath, enabled |-> m_enabled,
     configured |-> m_deviceConfigured, fw |-> m_frameWidth, fh |-> m_frameHeight,
     forced |-> m_forcedResolution, shortWritePending |-> shortWritePending]

\* VirtualCameraStreamer::~VirtualCameraStreamer
destructor(s) == closeDevice(s)

\* The call returns: its result state becomes the streamer's fields. When the
\* process was aborted instead, the kernel closes its descriptors.
Commit(s, call, arg) ==
    /\ streamerLife = "alive"
    /\ streamerLife' = IF s.aborted THEN "aborted"
                       ELSE IF call = "destructor" THEN "destroyed" ELSE "alive"
    /\ m_fd' = s.fd
    /\ m_devicePath' = s.path
    /\ m_enabled' = s.enabled
    /\ m_deviceConfigured' = s.configured
    /\ m_frameWidth' = s.fw
    /\ m_frameHeight' = s.fh
    /\ m_forcedResolution' = s.forced
    /\ osFds' = IF s.aborted THEN {} ELSE s.os
    /\ last' = [call |-> IF s.aborted THEN "abort" ELSE call, arg |-> arg, pre |-> Pre,
                ops |-> s.ops, errors |-> s.errors, req |-> s.req]
    /\ shortWritePending' =
           IF call = "frame" /\ s.req # InvalidSize
           THEN s.errors = <<"write">>
           ELSE shortWritePending

SetDevicePath ==
    \E path \in PathInputs :
        /\ Commit(setDevicePath(Snapshot, path), "setDevicePath", path)
        /\ UNCHANGED <<widgetVars, converterVars, aspectVars>>

SetEnabled ==
    \E enabled \in BOOLEAN :
        /\ Commit(setEnabled(Snapshot, enabled), "setEnabled", enabled)
        /\ UNCHANGED <<widgetVars, converterVars, aspectVars>>

SetForcedResolution ==
    \E resolution \in ForcedInputs :
        /\ Commit(setForcedResolution(Snapshot, resolution), "setForcedResolution",
                  resolution)
        /\ UNCHANGED <<widgetVars, converterVars, aspectVars>>

OnProcessedFrameReady ==
    \E frame \in FrameInputs, scaledFmt \in {"RGB888", "RGB32"}, fault \in Faults :
        /\ Commit(onProcessedFrameReady(Snapshot, frame, scaledFmt, fault), "frame", frame)
        /\ UNCHANGED <<widgetVars, converterVars, aspectVars>>

Destructor ==
    /\ Commit(destructor(Snapshot), "destructor", FALSE)
    /\ UNCHANGED <<widgetVars, converterVars, aspectVars>>

StreamerInit ==
    /\ streamerLife = "alive"
    /\ m_fd = -1
    /\ m_devicePath = kDefaultDevicePath
    /\ m_enabled = FALSE
    /\ m_deviceConfigured = FALSE
    /\ m_frameWidth = 0
    /\ m_frameHeight = 0
    /\ m_forcedResolution = InvalidSize
    /\ osFds = {}
    /\ last = [call |-> "constructor", arg |-> FALSE,
               pre |-> [fd |-> -1, path |-> kDefaultDevicePath, enabled |-> FALSE,
                        configured |-> FALSE, fw |-> 0, fh |-> 0,
                        forced |-> InvalidSize, shortWritePending |-> FALSE],
               ops |-> <<>>, errors |-> <<>>, req |-> InvalidSize]
    /\ shortWritePending = FALSE

\* ------------------------------------------------------------------ widget
\* A null unique_ptr.
NoObject == QSize(0, 0)

\* setFilter arguments: FilterType::None and FilterType::Invert.
FilterInputs == {0, 3}
\* setFilterStrength arguments, in percent (below 0.0 and above 1.0 included).
StrengthInputs == {-50, 50, 150}
\* The sizes of the frames the widget is given: 1..MaxDim wide, one row high.
WidgetFrameSizes == {QSize(w, 1) : w \in 1..MaxDim}
\* qBound(min, value, max)
qBound(lo, v, hi) == IF v < lo THEN lo ELSE IF v > hi THEN hi ELSE v

\* The frames updateVideoFrame is given: an invalid QVideoFrame, one whose
\* toImage() is null, or an image of some size and format.
VideoFrameInputs ==
    {[valid |-> FALSE, image |-> NullImage], [valid |-> TRUE, image |-> NullImage]}
        \cup {[valid |-> TRUE, image |-> Image(sz.w, sz.h, f)] :
                 sz \in WidgetFrameSizes, f \in Formats}

\* The widget's fields as one value g, which the private methods transform;
\* g.did logs what the call did.
NoPaint ==
    [call |-> "none", uploaded |-> FALSE, storage |-> FALSE, links |-> 0, allocs |-> 0,
     emits |-> 0, emittedSize |-> NoObject, offscreen |-> FALSE, visible |-> FALSE,
     drawTexture |-> NoObject, drawDirty |-> FALSE, drawFilter |-> 0, drawStrength |-> 0,
     prePending |-> FALSE, preDirty |-> FALSE, prePaints |-> 0, preTexture |-> NoObject,
     preProgram |-> FALSE, preFramebuffer |-> NoObject, ensured |-> FALSE,
     request |-> NoObject, offscreenViewport |-> NoObject]

WidgetSnapshot ==
    [image |-> m_currentImage, dirty |-> m_textureDirty, pending |-> m_emitPending,
     filter |-> m_filterType, strength |-> m_filterStrength, program |-> m_program,
     texture |-> m_texture, framebuffer |-> m_framebuffer,
     geometry |-> m_geometryInitialized, dpr |-> devicePixelRatio,
     did |-> [NoPaint EXCEPT !.prePending = m_emitPending, !.preDirty = m_textureDirty,
                             !.prePaints = paintsSinceArrival, !.preTexture = m_texture,
                             !.preProgram = m_program,
                             !.preFramebuffer = m_framebuffer]]

\* FilterPreviewWidget::ensureProgram: compile and link unless a program is set.
ensureProgram(g, linkOk) ==
    IF g.program THEN g
    ELSE [g EXCEPT !.program = linkOk, !.did.links = @ + 1]

\* FilterPreviewWidget::ensureGeometry
ensureGeometry(g) ==
    IF g.geometry THEN g ELSE [g EXCEPT !.geometry = TRUE]

\* Mutant of ensureFramebuffer: an empty size leaves the target as it is.
ensureFramebuffer_keepOnEmpty(g0, sz, fboOk) ==
    LET g == [g0 EXCEPT !.did.ensured = TRUE, !.did.request = sz]
    IN IF isEmpty(sz) THEN g
       ELSE IF g.framebuffer # NoObject /\ g.framebuffer = sz THEN g
       ELSE [g EXCEPT !.framebuffer = IF fboOk THEN sz ELSE NoObject,
                      !.did.allocs = @ + 1]

\* FilterPreviewWidget::ensureFramebuffer; g.did records the size asked for.
ensureFramebuffer(g0, sz, fboOk) ==
    LET g == [g0 EXCEPT !.did.ensured = TRUE, !.did.request = sz]
    IN IF isEmpty(sz) THEN [g EXCEPT !.framebuffer = NoObject]
       ELSE IF g.framebuffer # NoObject /\ g.framebuffer = sz THEN g
       ELSE [g EXCEPT !.framebuffer = IF fboOk THEN sz ELSE NoObject,
                      !.did.allocs = @ + 1]

\* Mutant of uploadTextureIfNeeded: an existing texture keeps its storage.
uploadTextureIfNeeded_keepStorage(g) ==
    IF ~g.dirty \/ g.image.null THEN g
    ELSE [g EXCEPT !.texture = IF g.texture = NoObject THEN size(g.image) ELSE @,
                   !.did.storage = (g.texture = NoObject),
                   !.did.uploaded = TRUE,
                   !.dirty = FALSE]

\* Mutant of uploadTextureIfNeeded: the upload ignores m_textureDirty.
uploadTextureIfNeeded_always(g) ==
    IF g.image.null THEN g
    ELSE [g EXCEPT !.texture = size(g.image),
                   !.did.storage = (g.texture # size(g.image)),
                   !.did.uploaded = TRUE,
                   !.dirty = FALSE]

\* FilterPreviewWidget::uploadTextureIfNeeded
uploadTextureIfNeeded(g) ==
    IF ~g.dirty \/ g.image.null THEN g
    ELSE LET frameSize == size(g.image)
         IN [g EXCEPT !.texture = frameSize,
                      !.did.storage = (g.texture # frameSize),
                      !.did.uploaded = TRUE,
                      !.dirty = FALSE]

\* Lines 329-330 of renderToCurrentTarget: the size handed to glViewport.
physicalSize(targetSize, dpr) == scaledToSize(targetSize, dpr)

\* FilterPreviewWidget::renderToCurrentTarget for the bound target; in the
\* offscreen pass targetSize is the frame's size, and g.did records the viewport.
renderToCurrentTarget(g, onscreen) ==
    IF ~g.program \/ g.texture = NoObject THEN g
    ELSE [g EXCEPT !.did.visible = IF onscreen THEN TRUE ELSE @,
                   !.did.offscreen = IF onscreen THEN @ ELSE TRUE,
                   !.did.offscreenViewport =
                       IF onscreen THEN @ ELSE physicalSize(size(g.image), g.dpr),
                   !.did.drawTexture = g.texture,
                   !.did.drawDirty = g.dirty,
                   !.did.drawFilter = g.filter,
                   !.did.drawStrength = g.strength]

\* Mutant of emitIfPending: m_emitPending is not cleared after the emission.
emitIfPending_keepPending(g) ==
    IF g.pending /\ g.framebuffer # NoObject
    THEN LET r == renderToCurrentTarget(g, FALSE)
         IN [r EXCEPT !.did.emits = @ + 1, !.did.emittedSize = size(g.image)]
    ELSE g

\* Lines 191-203 of paintGL: the offscreen pass, the readback and the emission.
emitIfPending(g) ==
    IF g.pending /\ g.framebuffer # NoObject
    THEN LET r == renderToCurrentTarget(g, FALSE)
         IN [r EXCEPT !.did.emits = @ + 1,
                      !.did.emittedSize = size(g.image),
                      !.pending = FALSE]
    ELSE g

\* FilterPreviewWidget::paintGL
paintGL(g0, linkOk, fboOk) ==
    LET g == [g0 EXCEPT !.did.call = "paint"]
    IN IF g.image.null THEN g
       ELSE LET u == uploadTextureIfNeeded(ensureGeometry(ensureProgram(g, linkOk)))
            IN IF ~u.program \/ u.texture = NoObject THEN u
               ELSE renderToCurrentTarget(
                        emitIfPending(ensureFramebuffer(u, size(u.image), fboOk)), TRUE)

\* Mutant of cleanupGLResources: the offscreen target is kept.
cleanupGLResources_keepFramebuffer(g) ==
    [g EXCEPT !.texture = NoObject, !.program = FALSE, !.geometry = FALSE]

\* FilterPreviewWidget::cleanupGLResources
cleanupGLResources(g) ==
    [g EXCEPT !.texture = NoObject, !.framebuffer = NoObject,
              !.program = FALSE, !.geometry = FALSE]

\* FilterPreviewWidget::initializeGL
initializeGL(g, linkOk) ==
    ensureGeometry(ensureProgram(cleanupGLResources([g EXCEPT !.did.call = "init"]), linkOk))

\* FilterPreviewWidget::handleContextAboutToBeDestroyed (the widget is valid)
handleContextAboutToBeDestroyed(g) ==
    cleanupGLResources([g EXCEPT !.did.call = "lost"])

\* FilterPreviewWidget::~FilterPreviewWidget; valid is isValid().
widgetDestructor(g0, valid) ==
    LET g == [g0 EXCEPT !.did.call = "destructor"]
    IN IF valid THEN cleanupGLResources(g) ELSE g

\* Mutant of updateVideoFrame: an invalid frame also asks for an emission.
updateVideoFrame_pendingOnInvalid(g0, frame, convertOk) ==
    LET g == [g0 EXCEPT !.did.call = "frame"]
    IN IF ~frame.valid THEN [g EXCEPT !.pending = TRUE]
       ELSE IF frame.image.null THEN g
       ELSE LET image == IF frame.image.fmt # "RGBA8888"
                         THEN convertToFormat(frame.image, "RGBA8888", convertOk)
                         ELSE frame.image
            IN [g EXCEPT !.image = image, !.dirty = TRUE, !.pending = TRUE]

\* FilterPreviewWidget::updateVideoFrame
updateVideoFrame(g0, frame, convertOk) ==
    LET g == [g0 EXCEPT !.did.call = "frame"]
    IN IF ~frame.valid THEN g
       ELSE IF frame.image.null THEN g
       ELSE LET image == IF frame.image.fmt # "RGBA8888"
                         THEN convertToFormat(frame.image, "RGBA8888", convertOk)
                         ELSE frame.image
            IN [g EXCEPT !.image = image, !.dirty = TRUE, !.pending = TRUE]

\* FilterPreviewWidget::setFilter
setFilter(g0, type) ==
    LET g == [g0 EXCEPT !.did.call = "setFilter"]
    IN IF g.filter = type THEN g ELSE [g EXCEPT !.filter = type]

\* FilterPreviewWidget::setFilterStrength
setFilterStrength(g0, strength) ==
    LET g == [g0 EXCEPT !.did.call = "setFilterStrength"]
        clamped == qBound(0, strength, 100)
    IN IF clamped = g.strength THEN g ELSE [g EXCEPT !.strength = clamped]

\* The call returns: its result becomes the widget's fields.
WidgetCommit(g) ==
    /\ ~widgetDestroyed
    /\ widgetDestroyed' = (g.did.call = "destructor")
    /\ devicePixelRatio' = g.dpr
    /\ m_currentImage' = g.image
    /\ m_textureDirty' = g.dirty
    /\ m_emitPending' = g.pending
    /\ m_filterType' = g.filter
    /\ m_filterStrength' = g.strength
    /\ m_program' = g.program
    /\ m_texture' = g.texture
    /\ m_framebuffer' = g.framebuffer
    /\ m_geometryInitialized' = g.geometry
    /\ lastPaint' = g.did
    /\ emitted' = emitted + g.did.emits
    /\ gpuFailed' = (gpuFailed
                        \/ (g.did.links > 0 /\ ~g.program)
                        \/ (g.did.allocs > 0 /\ g.framebuffer = NoObject))

UpdateVideoFrame ==
    \E frame \in VideoFrameInputs, convertOk \in BOOLEAN :
        LET g == updateVideoFrame(WidgetSnapshot, frame, convertOk)
            arrived == frame.valid /\ ~frame.image.null
            stored == arrived /\ ~g.image.null
        IN /\ stored => received < MaxFrames
           /\ WidgetCommit(g)
           /\ received' = IF stored THEN received + 1 ELSE received
           /\ unpainted' = IF arrived THEN stored ELSE unpainted
           /\ paintsSinceArrival' = IF arrived THEN 0 ELSE paintsSinceArrival
           /\ overlapped' = (overlapped \/ (arrived /\ unpainted))
           /\ UNCHANGED <<contextReady, streamerVars, converterVars, aspectVars>>

InitializeGL ==
    /\ ~contextReady
    /\ \E linkOk \in BOOLEAN : WidgetCommit(initializeGL(WidgetSnapshot, linkOk))
    /\ contextReady' = TRUE
    /\ UNCHANGED <<received, unpainted, paintsSinceArrival, overlapped, streamerVars,
                   converterVars, aspectVars>>

ContextAboutToBeDestroyed ==
    /\ contextReady
    /\ WidgetCommit(handleContextAboutToBeDestroyed(WidgetSnapshot))
    /\ contextReady' = FALSE
    /\ UNCHANGED <<received, unpainted, paintsSinceArrival, overlapped, streamerVars,
                   converterVars, aspectVars>>

PaintGL ==
    /\ contextReady
    /\ \E linkOk \in BOOLEAN, fboOk \in BOOLEAN :
           WidgetCommit(paintGL(WidgetSnapshot, linkOk, fboOk))
    /\ unpainted' = FALSE
    /\ paintsSinceArrival' = IF paintsSinceArrival < 2 THEN paintsSinceArrival + 1 ELSE 2
    /\ UNCHANGED <<contextReady, received, overlapped, streamerVars, converterVars, aspectVars>>

SetFilter ==
    /\ \E type \in FilterInputs : WidgetCommit(setFilter(WidgetSnapshot, type))
    /\ UNCHANGED <<contextReady, received, unpainted, paintsSinceArrival, overlapped,
                   streamerVars, converterVars, aspectVars>>

SetFilterStrength ==
    /\ \E strength \in StrengthInputs :
           WidgetCommit(setFilterStrength(WidgetSnapshot, strength))
    /\ UNCHANGED <<contextReady, received, unpainted, paintsSinceArrival, overlapped,
                   streamerVars, converterVars, aspectVars>>

\* The sizes ensureFramebuffer is called with on its own: empty ones and frame sizes.
FramebufferSizes == {InvalidSize, QSize(0, 0), QSize(0, 1)} \cup WidgetFrameSizes

\* ensureFramebuffer called on its own, the context being current.
EnsureFramebuffer ==
    /\ contextReady
    /\ \E sz \in FramebufferSizes, fboOk \in BOOLEAN :
           WidgetCommit(ensureFramebuffer([WidgetSnapshot EXCEPT
                                              !.did.call = "ensureFramebuffer"],
                                          sz, fboOk))
    /\ UNCHANGED <<contextReady, received, unpainted, paintsSinceArrival, overlapped,
                   streamerVars, converterVars, aspectVars>>

\* The device pixel ratios of the screens: 1 and 2.
DevicePixelRatios == {Rational(1, 1), Rational(2, 1)}

\* The widget comes to be on a screen of another device pixel ratio.
ScreenChanged ==
    /\ \E dpr \in DevicePixelRatios \ {devicePixelRatio} :
           WidgetCommit([WidgetSnapshot EXCEPT !.dpr = dpr, !.did.call = "screenChanged"])
    /\ UNCHANGED <<contextReady, received, unpainted, paintsSinceArrival, overlapped,
                   streamerVars, converterVars, aspectVars>>

\* The widget is destroyed, and with it its rendering context.
WidgetDestructor ==
    /\ WidgetCommit(widgetDestructor(WidgetSnapshot, contextReady))
    /\ contextReady' = FALSE
    /\ UNCHANGED <<received, unpainted, paintsSinceArrival, overlapped, streamerVars,
                   converterVars, aspectVars>>

WidgetInit ==
    /\ widgetDestroyed = FALSE
    /\ devicePixelRatio = Rational(1, 1)
    /\ m_currentImage = NullImage
    /\ m_textureDirty = FALSE
    /\ m_emitPending = FALSE
    /\ m_filterType = 0
    /\ m_filterStrength = 100
    /\ m_program = FALSE
    /\ m_texture = NoObject
    /\ m_framebuffer = NoObject
    /\ m_geometryInitialized = FALSE
    /\ contextReady = FALSE
    /\ received = 0
    /\ emitted = 0
    /\ unpainted = FALSE
    /\ paintsSinceArrival = 0
    /\ overlapped = FALSE
    /\ gpuFailed = FALSE
    /\ lastPaint = NoPaint

\* ------------------------------------------------------------------ converter
\* The RGB888 image handed to convertRgbToYuyv: a width, a height and the pixels
\* constScanLine(y) yields. The pixels of row 0 are the sequence row; row y is
\* row 0 rotated by y columns, so that the rows of an image differ.
RgbImage(w, h, row) == [w |-> w, h |-> h, row |-> row]
\* src + x * 3 in the scan line of row y: the triple <<r, g, b>>.
pixel(img, x, y) == img.row[((x + y) % img.w) + 1]
\* The colours of the input images.
Palette == {<<255, 0, 0>>, <<0, 0, 255>>, <<200, 100, 50>>}
ConverterInputs ==
    UNION {{RgbImage(w, h, row) : row \in [1..w -> Palette]} :
               w \in 0..MaxWidth, h \in 0..MaxHeight}

\* clampToByte
clampToByte(value) == IF value < 0 THEN 0 ELSE IF value > 255 THEN 255 ELSE value

\* Mutant of shiftRight8: the shift rounds towards zero.
shiftRight8_truncating(value) ==
    IF value < 0 THEN -((-value) \div 256) ELSE value \div 256

\* value >> 8 on an int: the arithmetic shift, which rounds towards minus infinity.
shiftRight8(value) == value \div 256

\* rgbToYuv
rgbToYuv(p) ==
    LET r == p[1]
        g == p[2]
        b == p[3]
    IN [y |-> clampToByte(shiftRight8(66 * r + 129 * g + 25 * b + 128) + 16),
        u |-> clampToByte(shiftRight8(-38 * r - 74 * g + 112 * b + 128) + 128),
        v |-> clampToByte(shiftRight8(112 * r - 94 * g - 18 * b + 128) + 128)]

\* One assignment rowPtr[i] = value of row y, as the index dst + at of outBuffer.
Store(y, at, value) == [row |-> y, at |-> at, byte |-> value]

\* The stores of row y from column x on: the pair loop (lines 70-84), then the
\* trailing column of an odd width (lines 86-94), which stores four bytes.
RECURSIVE rowStores(_, _, _)
rowStores(img, y, x) ==
    LET rowPtr == y * img.w * 2
    IN IF x + 1 < img.w
       THEN LET yuv0 == rgbToYuv(pixel(img, x, y))
                yuv1 == rgbToYuv(pixel(img, x + 1, y))
                u == clampToByte((yuv0.u + yuv1.u) \div 2)
                v == clampToByte((yuv0.v + yuv1.v) \div 2)
            IN <<Store(y, rowPtr + (x * 2) + 0, yuv0.y),
                 Store(y, rowPtr + (x * 2) + 1, u),
                 Store(y, rowPtr + (x * 2) + 2, yuv1.y),
                 Store(y, rowPtr + (x * 2) + 3, v)>> \o rowStores(img, y, x + 2)
       ELSE IF x < img.w
       THEN LET yuv0 == rgbToYuv(pixel(img, x, y))
            IN <<Store(y, rowPtr + (x * 2) + 0, yuv0.y),
                 Store(y, rowPtr + (x * 2) + 1, yuv0.u),
                 Store(y, rowPtr + (x * 2) + 2, yuv0.y),
                 Store(y, rowPtr + (x * 2) + 3, yuv0.v)>>
       ELSE <<>>

\* The stores of rows y..height-1, in program order (the loop of line 65).
RECURSIVE imageStores(_, _)
imageStores(img, y) ==
    IF y < img.h THEN rowStores(img, y, 0) \o imageStores(img, y + 1) ELSE <<>>

\* A byte of outBuffer no store reached (QByteArray::resize leaves it unset).
Unset == -1
\* outBuffer after the stores: the last byte stored at each index inside it.
bufferAfter(n, stores) ==
    [i \in 0..(n - 1) |->
        LET at == {k \in DOMAIN stores : stores[k].at = i}
        IN IF at = {} THEN Unset
           ELSE stores[CHOOSE k \in at : \A j \in at : j <= k].byte]

\* The record of a conversion that has not run.
NotConverted == [state |-> "idle", ret |-> FALSE, size |-> 0, outBuffer |-> <<>>,
                 stores |-> <<>>]

\* convertRgbToYuyv. A store outside outBuffer is undefined behaviour: the call
\* then either returns as if the store had hit unused memory, or the process is
\* aborted (abort), as a hardened allocator or a sanitizer build does.
convertRgbToYuyv(img, abort) ==
    IF img.w <= 0 \/ img.h <= 0
    THEN [NotConverted EXCEPT !.state = "returned"]
    ELSE LET n == img.w * img.h * 2
             stores == imageStores(img, 0)
             outside == \E k \in DOMAIN stores : stores[k].at \notin 0..(n - 1)
         IN [state |-> IF outside /\ abort THEN "aborted" ELSE "returned",
             ret |-> ~(outside /\ abort), size |-> n,
             outBuffer |-> bufferAfter(n, stores), stores |-> stores]

\* The converter is called once on the image Init drew.
ConvertRgbToYuyv ==
    /\ conversion.state = "idle"
    /\ \E abort \in BOOLEAN : conversion' = convertRgbToYuyv(rgbImage, abort)
    /\ UNCHANGED <<rgbImage, streamerVars, widgetVars, aspectVars>>

ConverterIdle ==
    /\ rgbImage = RgbImage(0, 0, <<>>)
    /\ conversion = NotConverted

\* ------------------------------------------------------------------ aspect fit
\* The aspects are quotients of positive integers, kept exact. The program's
\* divisions round, but rounding is monotonic and keeps 1, so the comparisons
\* below give what the program's comparisons give.
\* a > b and a / b for such quotients.
Greater(a, b) == a.n * b.d > b.n * a.d
Quotient(a, b) == Rational(a.n * b.d, a.d * b.n)
\* QVector2D
QVector2D(x, y) == [x |-> x, y |-> y]
\* u_scale before any render pass has set it.
NoScale == QVector2D(Rational(0, 1), Rational(0, 1))

\* Mutant of aspectScale: the comparison is reversed.
aspectScale_reversed(frame, target) ==
    LET frameAspect == Rational(frame.w, frame.h)
        targetAspect == Rational(target.w, target.h)
    IN IF Greater(targetAspect, frameAspect)
       THEN QVector2D(Rational(1, 1), Quotient(frameAspect, targetAspect))
       ELSE QVector2D(Quotient(targetAspect, frameAspect), Rational(1, 1))

\* Lines 340-351 of renderToCurrentTarget: the scale handed to the vertex shader.
aspectScale(frame, target) ==
    LET frameAspect == Rational(frame.w, frame.h)
        targetAspect == Rational(target.w, target.h)
    IN IF Greater(frameAspect, targetAspect)
       THEN QVector2D(Rational(1, 1), Quotient(frameAspect, targetAspect))
       ELSE QVector2D(Quotient(targetAspect, frameAspect), Rational(1, 1))

\* The vertex shader's scaledPos for the corner (1, 1) of the unit quad.
scaledPos(scale) ==
    QVector2D(Quotient(Rational(1, 1), scale.x), Quotient(Rational(1, 1), scale.y))

\* The frame sizes and target sizes of a render pass; 16x9 is also the size
\* frameAspectSize assumes without an image.
AspectSizes ==
    {QSize(w, h) : w \in 1..MaxAspectDim, h \in 1..MaxAspectDim}
        \cup {QSize(16, 9), QSize(1920, 1080)}

\* A render pass computes the scale for the sizes Init drew.
SetScale ==
    /\ u_scale = NoScale
    /\ u_scale' = aspectScale(fitFrameSize, fitTargetSize)
    /\ UNCHANGED <<fitFrameSize, fitTargetSize, streamerVars, widgetVars, converterVars>>

AspectIdle ==
    /\ fitFrameSize = QSize(16, 9)
    /\ fitTargetSize = QSize(16, 9)
    /\ u_scale = NoScale

\* ------------------------------------------------------------------ specifications
Init == StreamerInit /\ WidgetInit /\ ConverterIdle /\ AspectIdle

\* The device session: the streamer's public operations in any order.
Next ==
    \/ SetDevicePath
    \/ SetEnabled
    \/ SetForcedResolution
    \/ OnProcessedFrameReady
    \/ Destructor

Spec == Init /\ [][Next]_vars

\* The preview widget: frames, paints, context loss and filter changes in any order.
WidgetNext ==
    \/ UpdateVideoFrame
    \/ InitializeGL
    \/ ContextAboutToBeDestroyed
    \/ PaintGL
    \/ SetFilter
    \/ SetFilterStrength
    \/ ScreenChanged
    \/ WidgetDestructor

WidgetSpec == Init /\ [][WidgetNext]_vars

\* The preview widget's frames, paints and context changes, with
\* ensureFramebuffer also called on its own with any size.
FramebufferNext ==
    \/ UpdateVideoFrame
    \/ InitializeGL
    \/ ContextAboutToBeDestroyed
    \/ PaintGL
    \/ WidgetDestructor
    \/ EnsureFramebuffer

FramebufferSpec == Init /\ [][FramebufferNext]_vars

\* Both objects from construction to destruction. They share no state, so a
\* behaviour follows one of them through all its operations while the other
\* stays as constructed.
TeardownNext ==
    \/ WidgetInit /\ SetDevicePath
    \/ WidgetInit /\ SetEnabled
    \/ WidgetInit /\ SetForcedResolution
    \/ WidgetInit /\ OnProcessedFrameReady
    \/ WidgetInit /\ Destructor
    \/ StreamerInit /\ UpdateVideoFrame
    \/ StreamerInit /\ InitializeGL
    \/ StreamerInit /\ ContextAboutToBeDestroyed
    \/ StreamerInit /\ PaintGL
    \/ StreamerInit /\ SetFilter
    \/ StreamerInit /\ SetFilterStrength
    \/ StreamerInit /\ WidgetDestructor

TeardownSpec == Init /\ [][TeardownNext]_vars

\* The converter: one call on each image of ConverterInputs.
ConverterInit ==
    /\ StreamerInit
    /\ WidgetInit
    /\ rgbImage \in ConverterInputs
    /\ conversion = NotConverted
    /\ AspectIdle

ConverterNext == ConvertRgbToYuyv

ConverterSpec == ConverterInit /\ [][ConverterNext]_vars

\* The aspect fit: one render pass for each pair of sizes.
AspectInit ==
    /\ StreamerInit
    /\ WidgetInit
    /\ ConverterIdle
    /\ fitFrameSize \in AspectSizes
    /\ fitTargetSize \in AspectSizes
    /\ u_scale = NoScale

AspectNext == SetScale

AspectSpec == AspectInit /\ [][AspectNext]_vars

\* ------------------------------------------------------------------ claims
\* Helpers over the log of a call.
Count(ops, kind) == Cardinality({i \in DOMAIN ops : ops[i].op = kind})
Kinds(ops) == [i \in DOMAIN ops |-> ops[i].op]
FrameReachedDevice == last.call = "frame" /\ last.req # InvalidSize
Wrote == \E i \in DOMAIN last.ops : last.ops[i].op = "write"

\* Every write of the call goes to a handle that the same call opened and then
\* configured, with no close in between.
WritesOnFreshHandle ==
    \A k \in DOMAIN last.ops :
        last.ops[k].op = "write" =>
            \E i \in 1..(k - 1), j \in 1..(k - 1) :
                /\ i < j
                /\ last.ops[i].op = "open" /\ last.ops[i].ok
                /\ last.ops[j].op = "ioctl" /\ last.ops[j].ok
                /\ last.ops[j].fd = last.ops[i].fd
                /\ last.ops[k].fd = last.ops[i].fd
                /\ \A m \in (i + 1)..(k - 1) : last.ops[m].op # "close"
SessionClosed ==
    m_fd = -1 /\ ~m_deviceConfigured /\ m_frameWidth = 0 /\ m_frameHeight = 0 /\ osFds = {}

\* C1: when no link and no offscreen allocation has failed and every valid frame
\* saw a paintGL before the next frame arrived, the number of processedFrameReady
\* emissions equals the number of valid frames received, less the one frame (if
\* any) that no paintGL has followed yet; extra paints add nothing.
C1_EmissionCadence ==
    (~gpuFailed /\ ~overlapped) =>
        emitted = received - (IF unpainted THEN 1 ELSE 0)

\* C1 witness: two frames, each painted, the last one painted twice, two emissions.
C1_Witness ==
    /\ ~gpuFailed /\ ~overlapped
    /\ received = 2 /\ emitted = 2
    /\ paintsSinceArrival = 2
    /\ lastPaint.call = "paint" /\ lastPaint.visible

\* A paintGL that ran with a frame held and no frame arrival since the previous paintGL.
Repaint ==
    lastPaint.call = "paint" /\ lastPaint.prePaints >= 1 /\ ~m_currentImage.null

\* C2 as claimed, where the program and a texture are present: a paintGL with
\* no frame arrival since the previous paintGL re-renders the visible surface
\* from the last texture and filter state, uploads nothing and emits nothing.
C2_Original ==
    (Repaint /\ m_program /\ m_texture # NoObject) =>
        /\ lastPaint.visible
        /\ lastPaint.drawTexture = lastPaint.preTexture
        /\ ~lastPaint.uploaded
        /\ lastPaint.emits = 0

\* C2 as amended: such a paintGL uploads nothing and leaves the texture as it
\* was; it emits at most once, and only an emission the earlier paints left
\* pending; and when the program and a texture are present it renders the
\* visible surface from that texture and the current filter state.
C2_Repaint ==
    Repaint =>
        /\ ~lastPaint.uploaded
        /\ m_texture = lastPaint.preTexture
        /\ lastPaint.emits <= 1
        /\ (lastPaint.emits = 1 => lastPaint.prePending /\ ~m_emitPending)
        /\ (m_program /\ m_texture # NoObject) =>
               /\ lastPaint.visible
               /\ lastPaint.drawTexture = lastPaint.preTexture
               /\ lastPaint.drawFilter = m_filterType
               /\ lastPaint.drawStrength = m_filterStrength

\* C2 witness: a repaint that drew the visible surface and emitted nothing.
C2_Witness ==
    Repaint /\ lastPaint.visible /\ lastPaint.emits = 0 /\ ~lastPaint.prePending

\* C3 as claimed: the frame after a short write opens the device once, then
\* negotiates the format once, then writes.
C3_ReopenOnce ==
    (last.call = "frame" /\ last.pre.shortWritePending /\ Wrote) =>
        Kinds(last.ops) = <<"open", "ioctl", "write">>

\* C4: a write that returns another count than the frame's size leaves the
\* session closed, reports one error and is the call's only write; and the frame
\* written after it is written to a handle opened and configured in its own call.
C4_ShortWrite ==
    /\ (last.call = "frame" /\ \E i \in DOMAIN last.ops :
                                   last.ops[i].op = "write" /\ ~last.ops[i].ok) =>
           /\ SessionClosed
           /\ last.errors = <<"write">>
           /\ Count(last.ops, "write") = 1
           /\ last.ops[Len(last.ops)].op = "close"
    /\ (last.call = "frame" /\ last.pre.shortWritePending) =>
           /\ last.pre.fd = -1
           /\ WritesOnFreshHandle

\* C4 witness: the frame after a short write is written in full.
C4_Witness ==
    /\ last.call = "frame" /\ last.pre.shortWritePending
    /\ \E i \in DOMAIN last.ops : last.ops[i].op = "write" /\ last.ops[i].ok

\* C5 as claimed: every reported failure leaves output disabled, and a disabled
\* streamer does nothing with the device until setEnabled(true).
C5_FailuresDisable ==
    /\ (last.call = "frame" /\ last.errors # <<>>) => ~m_enabled
    /\ (last.call = "frame" /\ ~last.pre.enabled) => last.ops = <<>>
    /\ (m_enabled /\ ~last.pre.enabled) => (last.call = "setEnabled" /\ last.arg = TRUE)

\* C6: a failed open or a failed format negotiation reports exactly one error and
\* leaves the session closed and output disabled, with no write in that call.
C6_OpenOrFormatFailure ==
    (last.call = "frame" /\ \E i \in DOMAIN last.ops :
                                last.ops[i].op \in {"open", "ioctl"} /\ ~last.ops[i].ok) =>
        /\ Len(last.errors) = 1
        /\ last.errors[1] =
               (IF \E i \in DOMAIN last.ops : last.ops[i].op = "ioctl"
                THEN "format" ELSE "open")
        /\ SessionClosed
        /\ ~m_enabled
        /\ ~Wrote

\* C6 witness: a format negotiation failed on a freshly opened handle.
C6_Witness ==
    /\ last.call = "frame"
    /\ \E i \in DOMAIN last.ops : last.ops[i].op = "ioctl" /\ ~last.ops[i].ok
    /\ SessionClosed

\* The output size a frame is delivered with under the forced resolution in force.
TargetOf(frame, forced) == IF isValid(forced) THEN forced ELSE size(frame)

\* The frame's call opened only the current path and negotiated only the target size.
FrameUsesConfiguration ==
    last.call = "frame" =>
        \A i \in DOMAIN last.ops :
            /\ last.ops[i].op = "open" => last.ops[i].path = m_devicePath
            /\ last.ops[i].op = "ioctl" =>
                   QSize(last.ops[i].w, last.ops[i].h) = TargetOf(last.arg, m_forcedResolution)

\* C7 as claimed: a path (resolution) argument different from the current one
\* closes an open session before the setter returns.
C7_Original ==
    /\ (last.call = "setDevicePath" /\ last.arg # last.pre.path /\ last.pre.fd # -1) =>
           m_fd = -1
    /\ (last.call = "setForcedResolution" /\ last.arg # last.pre.forced
            /\ last.pre.fd # -1) =>
           m_fd = -1
    /\ FrameUsesConfiguration

\* C7 as amended: an argument whose normalised value (the trimmed path, the
\* default path for an empty one; the unset size for an invalid one) differs from
\* the current one closes an open session before the setter returns and becomes
\* the current value; a frame opens only the current path and negotiates only
\* the current output size.
C7_ConfigurationChangeCloses ==
    /\ (last.call = "setDevicePath" /\ last.pre.fd # -1) =>
           LET n == IF trimmed(last.arg) = <<>> THEN kDefaultDevicePath
                    ELSE trimmed(last.arg)
           IN IF n # last.pre.path
              THEN SessionClosed /\ m_devicePath = n /\ Kinds(last.ops) = <<"close">>
              ELSE m_fd = last.pre.fd /\ last.ops = <<>>
    /\ (last.call = "setForcedResolution" /\ last.pre.fd # -1) =>
           LET n == IF isValid(last.arg) THEN last.arg ELSE InvalidSize
           IN IF n # last.pre.forced
              THEN SessionClosed /\ m_forcedResolution = n
                       /\ Kinds(last.ops) = <<"close">>
              ELSE m_fd = last.pre.fd /\ last.ops = <<>>
    /\ FrameUsesConfiguration

\* C7 witness: a path change closed an open session.
C7_Witness ==
    /\ last.call = "setDevicePath" /\ last.pre.fd # -1
    /\ m_devicePath # last.pre.path /\ m_fd = -1

\* C8: setEnabled(false) on an enabled streamer closes the session; setEnabled(true)
\* touches no handle; only a frame opens the device (its call is logged as
\* "abort" when the process died in it); a frame given to a disabled
\* streamer changes no field and makes no system call.
C8_LazyOpen ==
    /\ (last.call = "setEnabled" /\ last.arg = FALSE /\ last.pre.enabled) =>
           SessionClosed /\ ~m_enabled
    /\ (last.call = "setEnabled" /\ last.arg = TRUE) =>
           last.ops = <<>> /\ m_fd = last.pre.fd /\ m_enabled
    /\ (Count(last.ops, "open") > 0) => last.call \in {"frame", "abort"}
    /\ (last.call = "frame" /\ ~last.pre.enabled) =>
           /\ last.ops = <<>> /\ last.errors = <<>>
           /\ [fd |-> m_fd, path |-> m_devicePath, enabled |-> m_enabled,
               configured |-> m_deviceConfigured, fw |-> m_frameWidth,
               fh |-> m_frameHeight, forced |-> m_forcedResolution,
               shortWritePending |-> shortWritePending] = last.pre

\* C8 witness: setEnabled(false) closed an open session.
C8_Witness ==
    /\ last.call = "setEnabled" /\ last.arg = FALSE
    /\ last.pre.fd # -1 /\ m_fd = -1

\* openDevice was asked for the dimensions the open session is configured with.
SameDimensions ==
    /\ last.pre.fd # -1 /\ last.pre.configured
    /\ last.req = QSize(last.pre.fw, last.pre.fh)

\* C9 as claimed, for a session that is open: with equal dimensions ensureReady
\* makes no system call; with differing dimensions it issues exactly one format
\* negotiation, and on success the session is configured with the requested
\* dimensions.
C9_Original ==
    (FrameReachedDevice /\ last.pre.fd # -1) =>
        /\ SameDimensions => last.ops[1].op = "write"
        /\ ~SameDimensions => Count(last.ops, "ioctl") = 1
        /\ (last.errors = <<>>) =>
               m_deviceConfigured /\ QSize(m_frameWidth, m_frameHeight) = last.req

\* C9 as amended: with equal dimensions on a configured session ensureReady makes
\* no system call; otherwise it closes an open handle, opens the device, and
\* issues exactly one format negotiation unless an open failed (then none); on
\* success the session is configured with the requested dimensions.
C9_Reconfigure ==
    FrameReachedDevice =>
        LET opensOk == \A i \in DOMAIN last.ops :
                           last.ops[i].op = "open" => last.ops[i].ok
        IN /\ SameDimensions => last.ops[1].op = "write"
           /\ ~SameDimensions =>
                  /\ Count(last.ops, "open") >= 1
                  /\ Count(last.ops, "ioctl") = (IF opensOk THEN 1 ELSE 0)
                  /\ last.pre.fd # -1 =>
                         Kinds(SubSeq(last.ops, 1, 2)) = <<"close", "open">>
           /\ (last.errors = <<>>) =>
                  m_deviceConfigured /\ QSize(m_frameWidth, m_frameHeight) = last.req

\* C9 witness: a configured session was reconfigured for other dimensions.
C9_Witness ==
    /\ FrameReachedDevice
    /\ last.pre.fd # -1 /\ last.pre.configured /\ ~SameDimensions
    /\ m_deviceConfigured /\ QSize(m_frameWidth, m_frameHeight) = last.req

\* C10: every format negotiation and every write of a frame's call, and the
\* dimensions the session records, have the forced resolution when one is set
\* and the input frame's dimensions when none is set.
C10_OutputDimensions ==
    /\ last.call = "frame" =>
           LET target == TargetOf(last.arg, last.pre.forced)
           IN /\ \A i \in DOMAIN last.ops :
                     last.ops[i].op \in {"ioctl", "write"} =>
                         QSize(last.ops[i].w, last.ops[i].h) = target
              /\ last.req # InvalidSize =>
                     /\ last.req = target
                     /\ m_deviceConfigured =>
                            QSize(m_frameWidth, m_frameHeight) = target
    /\ (m_deviceConfigured /\ isValid(m_forcedResolution)) =>
           QSize(m_frameWidth, m_frameHeight) = m_forcedResolution

\* C10 witness: a 1920x1080 frame written as 640x480 under a forced 640x480.
C10_Witness ==
    /\ last.call = "frame"
    /\ size(last.arg) = QSize(1920, 1080)
    /\ last.pre.forced = QSize(640, 480)
    /\ \E i \in DOMAIN last.ops :
           /\ last.ops[i].op = "write" /\ last.ops[i].ok
           /\ QSize(last.ops[i].w, last.ops[i].h) = QSize(640, 480)

\* The reference conversion of a pixel: the integer BT.601 formulas, the shift
\* by 8 being the floor of the division by 256, the result clamped to 0..255.
Floor256(n) == CHOOSE q \in -256..256 : 256 * q <= n /\ n < 256 * (q + 1)
ToByte(n) == IF n < 0 THEN 0 ELSE IF n > 255 THEN 255 ELSE n
Bt601(p) ==
    [y |-> ToByte(Floor256(66 * p[1] + 129 * p[2] + 25 * p[3] + 128) + 16),
     u |-> ToByte(Floor256(112 * p[3] - 38 * p[1] - 74 * p[2] + 128) + 128),
     v |-> ToByte(Floor256(112 * p[1] - 94 * p[2] - 18 * p[3] + 128) + 128)]
Converted == conversion.state # "idle" /\ rgbImage.w >= 1 /\ rgbImage.h >= 1
SolidRed4x2 == RgbImage(4, 2, <<<<255, 0, 0>>, <<255, 0, 0>>, <<255, 0, 0>>, <<255, 0, 0>>>>)

\* C11: for every image of even width the output of convertRgbToYuyv is the
\* reference: width*height*2 bytes, each horizontal pair packed as Y0,
\* (U0+U1) div 2, Y1, (V0+V1) div 2 of the pixels' BT.601 values; the 4x2 solid
\* (255,0,0) image gives 16 bytes, 82 90 82 240 in every macropixel.
C11_EvenWidthReference ==
    (Converted /\ rgbImage.w % 2 = 0) =>
        /\ conversion.state = "returned"
        /\ conversion.ret
        /\ DOMAIN conversion.outBuffer = 0..(rgbImage.w * rgbImage.h * 2 - 1)
        /\ \A y \in 0..(rgbImage.h - 1), m \in 0..((rgbImage.w \div 2) - 1) :
               LET p0 == Bt601(pixel(rgbImage, 2 * m, y))
                   p1 == Bt601(pixel(rgbImage, 2 * m + 1, y))
                   at == y * rgbImage.w * 2 + 4 * m
               IN /\ conversion.outBuffer[at] = p0.y
                  /\ conversion.outBuffer[at + 1] = (p0.u + p1.u) \div 2
                  /\ conversion.outBuffer[at + 2] = p1.y
                  /\ conversion.outBuffer[at + 3] = (p0.v + p1.v) \div 2
        /\ rgbImage = SolidRed4x2 =>
               /\ conversion.size = 16
               /\ \A i \in 0..15 :
                      conversion.outBuffer[i] = <<82, 90, 82, 240>>[(i % 4) + 1]

\* The solid red 4x2 image has been converted to its 16 bytes.
C11_Witness ==
    /\ conversion.state = "returned"
    /\ rgbImage = SolidRed4x2
    /\ conversion.size = 16
    /\ conversion.outBuffer[13] = 90

\* C12: for an image of odd width w and height h the converter returns a buffer
\* of exactly w*h*2 bytes in which every row holds its leading columns as pairs
\* and its trailing column alone, as the macropixel Y U Y V of that column's own
\* values.
C12_OddWidthTrailingColumn ==
    (Converted /\ rgbImage.w % 2 = 1) =>
        /\ conversion.state = "returned"
        /\ conversion.ret
        /\ DOMAIN conversion.outBuffer = 0..(rgbImage.w * rgbImage.h * 2 - 1)
        /\ \A y \in 0..(rgbImage.h - 1) :
               LET rowPtr == y * rgbImage.w * 2
                   rowEnd == (y + 1) * rgbImage.w * 2
                   x == rgbImage.w - 1
                   p == Bt601(pixel(rgbImage, x, y))
                   alone == <<p.y, p.u, p.y, p.v>>
               IN /\ \A m \in 0..((rgbImage.w \div 2) - 1) :
                         LET p0 == Bt601(pixel(rgbImage, 2 * m, y))
                             p1 == Bt601(pixel(rgbImage, 2 * m + 1, y))
                             at == rowPtr + 4 * m
                         IN /\ conversion.outBuffer[at] = p0.y
                            /\ conversion.outBuffer[at + 1] = (p0.u + p1.u) \div 2
                            /\ conversion.outBuffer[at + 2] = p1.y
                            /\ conversion.outBuffer[at + 3] = (p0.v + p1.v) \div 2
                  /\ \A j \in 0..3 :
                         /\ rowPtr + (x * 2) + j < rowEnd
                         /\ conversion.outBuffer[rowPtr + (x * 2) + j] = alone[j + 1]

\* C19: every store of convertRgbToYuyv is at an index inside the output buffer,
\* and every store of row y is inside the bytes of row y, for all widths and
\* heights from 1 on.
C19_StoresInBounds ==
    Converted =>
        \A k \in DOMAIN conversion.stores :
            LET st == conversion.stores[k]
            IN /\ 0 <= st.at
               /\ st.at < rgbImage.w * rgbImage.h * 2
               /\ st.row * rgbImage.w * 2 <= st.at
               /\ st.at < (st.row + 1) * rgbImage.w * 2

\* C13: teardown releases everything within the call: after setEnabled(false)
\* or the streamer's destructor no device handle is open, and after the
\* context's aboutToBeDestroyed notification or the widget's destructor no
\* program, texture, offscreen target or vertex buffer and array is held and
\* m_geometryInitialized is false.
C13_Teardown ==
    /\ ((last.call = "setEnabled" /\ last.arg = FALSE) \/ last.call = "destructor") =>
           /\ m_fd = -1
           /\ osFds = {}
    /\ lastPaint.call \in {"lost", "destructor"} =>
           /\ ~m_program
           /\ m_texture = NoObject
           /\ m_framebuffer = NoObject
           /\ ~m_geometryInitialized

\* The context is lost while a program, a texture and an offscreen target exist.
C13_Witness ==
    /\ lastPaint.call = "lost"
    /\ lastPaint.preTexture # NoObject
    /\ lastPaint.prePaints > 0
    /\ emitted > 0
    /\ m_framebuffer = NoObject

\* The handles open after the first k system calls of the last call: the one
\* held when the call started, plus the successful opens, minus the closes.
OpenAfter(k) ==
    (IF last.pre.fd # -1 THEN 1 ELSE 0)
        + Cardinality({i \in 1..k : last.ops[i].op = "open" /\ last.ops[i].ok})
        - Cardinality({i \in 1..k : last.ops[i].op = "close"})

\* C14: across setter calls and frames with any failures, at most one device
\* handle is open at any time, every close is of the handle that is open, and
\* no handle is open when the session is closed.
C14_OneHandle ==
    streamerLife # "aborted" =>
        /\ \A k \in 0..Len(last.ops) : OpenAfter(k) \in {0, 1}
        /\ \A k \in 1..Len(last.ops) :
               last.ops[k].op = "close" => OpenAfter(k - 1) = 1
        /\ OpenAfter(Len(last.ops)) = Cardinality(osFds)
        /\ osFds = IF m_fd = -1 THEN {} ELSE {m_fd}

\* A frame of new dimensions closed the open handle, opened another and wrote.
C14_Witness ==
    /\ last.call = "frame"
    /\ last.pre.fd # -1
    /\ Kinds(last.ops) = <<"close", "open", "ioctl", "write">>
    /\ m_fd # -1

\* C20: whenever no operation of the streamer is executing, the handle is open
\* if and only if m_deviceConfigured is set, and if and only if m_frameWidth and
\* m_frameHeight are both positive; with the handle closed both are 0.
C20_HandleConfiguredDimensions ==
    streamerLife # "aborted" =>
        /\ (m_fd # -1) <=> m_deviceConfigured
        /\ (m_fd # -1) <=> (m_frameWidth > 0 /\ m_frameHeight > 0)
        /\ m_fd = -1 => (m_frameWidth = 0 /\ m_frameHeight = 0)

\* A failed format negotiation on a configured session left it closed.
C20_Witness ==
    /\ last.call = "frame"
    /\ last.pre.fd # -1
    /\ last.pre.configured
    /\ last.errors = <<"format">>
    /\ m_fd = -1
    /\ m_frameWidth = 0

\* C15: the shader program is compiled and linked once per surface lifetime, by
\* initializeGL: no paintGL makes a further attempt, and when the link failed
\* the program stays unset and every later paintGL draws nothing and emits
\* nothing.
C15_LinkOnce ==
    lastPaint.call = "paint" =>
        /\ lastPaint.links = 0
        /\ ~lastPaint.preProgram =>
               /\ ~m_program
               /\ ~lastPaint.visible
               /\ ~lastPaint.offscreen
               /\ lastPaint.emits = 0

\* What a call of ensureFramebuffer and the paint around it did, but for the
\* case of an empty size.
EnsureFramebufferNonEmpty ==
    /\ lastPaint.ensured =>
           /\ (~isEmpty(lastPaint.request) /\ lastPaint.preFramebuffer = lastPaint.request) =>
                  /\ m_framebuffer = lastPaint.preFramebuffer
                  /\ lastPaint.allocs = 0
           /\ (~isEmpty(lastPaint.request) /\ lastPaint.preFramebuffer # lastPaint.request) =>
                  /\ lastPaint.allocs = 1
                  /\ m_framebuffer \in {lastPaint.request, NoObject}
    /\ (lastPaint.call = "paint" /\ lastPaint.ensured /\ lastPaint.prePending) =>
           IF m_framebuffer = NoObject
           THEN /\ lastPaint.emits = 0
                /\ ~lastPaint.offscreen
                /\ lastPaint.visible
                /\ m_emitPending
           ELSE /\ lastPaint.emits = 1
                /\ lastPaint.offscreen
                /\ lastPaint.visible
                /\ ~m_emitPending

C17_TextureMatchesFrame ==
    /\ (lastPaint.visible \/ lastPaint.offscreen) =>
           /\ lastPaint.call = "paint"
           /\ lastPaint.drawTexture # NoObject
           /\ lastPaint.drawTexture = size(m_currentImage)
           /\ ~lastPaint.drawDirty
    /\ lastPaint.storage =>
           /\ lastPaint.uploaded
           /\ lastPaint.preTexture # size(m_currentImage)
    /\ (lastPaint.preDirty /\ ~m_textureDirty) => lastPaint.uploaded

\* A paint drew a frame whose dimensions differ from the texture it found.
C17_Witness ==
    /\ lastPaint.call = "paint"
    /\ lastPaint.visible
    /\ lastPaint.storage
    /\ lastPaint.preTexture # NoObject
    /\ lastPaint.drawTexture = size(m_currentImage)

\* A quotient that is at least 1, and one that is 1.
AtLeastOne(q) == q.n >= q.d
IsOne(q) == q.n = q.d

\* C18: for all positive frame and target sizes both components of the
\* aspect-fit scale are at least 1 and at most one of them differs from 1; the
\* scale is (1,1) when frameWidth*targetHeight = targetWidth*frameHeight; and
\* the unit quad divided by the scale lies inside the target.
C18_AspectFit ==
    u_scale # NoScale =>
        /\ AtLeastOne(u_scale.x)
        /\ AtLeastOne(u_scale.y)
        /\ IsOne(u_scale.x) \/ IsOne(u_scale.y)
        /\ fitFrameSize.w * fitTargetSize.h = fitTargetSize.w * fitFrameSize.h =>
               (IsOne(u_scale.x) /\ IsOne(u_scale.y))
        /\ ~Greater(scaledPos(u_scale).x, Rational(1, 1))
        /\ ~Greater(scaledPos(u_scale).y, Rational(1, 1))

\* A 16x9 frame has been fitted to a narrower target: the quad is shrunk vertically.
C18_Witness ==
    /\ fitFrameSize = QSize(16, 9)
    /\ fitTargetSize = QSize(1, 1)
    /\ u_scale = QVector2D(Rational(1, 1), Rational(16, 9))
\* C21: a paintGL that runs with a held frame and a linked program never returns
\* without a texture and without drawing; so after the context was lost and
\* re-initialised with no new frame, the next paintGL uploads the held frame
\* again and draws it.
C21_RedrawAfterContextLoss ==
    (lastPaint.call = "paint" /\ ~m_currentImage.null /\ m_program) =>
        /\ m_texture = size(m_currentImage)
        /\ lastPaint.visible
        /\ (lastPaint.preTexture = NoObject) => lastPaint.uploaded
\* C22: in the offscreen pass of paintGL the viewport renderToCurrentTarget sets
\* has exactly the dimensions of the offscreen target, the frame's native size,
\* for every device pixel ratio.
C22_OffscreenViewport ==
    lastPaint.offscreen =>
        /\ m_framebuffer = size(m_currentImage)
        /\ lastPaint.emittedSize = size(m_currentImage)
        /\ lastPaint.offscreenViewport = m_framebuffer
\* C23: in every reachable state, whatever the interleaving of frame arrivals,
\* paints, allocation and link failures and context loss and re-creation, the
\* processedFrameReady emissions are at most as many as the valid frames
\* received, a paintGL emits at most once, and an emitted image has the
\* dimensions of the latest received frame.
C23_EmissionsBounded ==
    /\ emitted <= received
    /\ lastPaint.emits <= 1
    /\ lastPaint.emits = 1 =>
           /\ lastPaint.call = "paint"
           /\ ~m_currentImage.null
           /\ lastPaint.emittedSize = size(m_currentImage)

\* After frames that arrived faster than they were painted and after a failed
\* allocation or link, a paint on a re-created context emits the latest frame.
C23_Witness ==
    /\ overlapped
    /\ gpuFailed
    /\ lastPaint.call = "paint"
    /\ lastPaint.emits = 1
    /\ lastPaint.preTexture = NoObject
    /\ lastPaint.links = 1
    /\ emitted = 2
    /\ received = MaxFrames
====
